---- MODULE Spec2Model ----
(***************************************************************************)
(* Heart-rate bridge (src/main.rs): the acquisition loop                   *)
(* (start_bluetooth_monitor / handle_device), the shared store             *)
(* (AppState.heart_rate_data), the tokio broadcast channel (AppState.tx)   *)
(* and the per-connection WebSocket handler (ws_handler) with its two      *)
(* spawned tasks.                                                          *)
(***************************************************************************)
EXTENDS Integers, Sequences, FiniteSets, TLC

\* ------------------------------------------------------------------ bounds
\* Successfully decoded readings explored in one behaviour.
MaxReadings == 3
\* Readings a lagging receiver can fall behind before the broadcast ring
\* overwrites its next slot (broadcast::channel(100) in main, scaled down).
Capacity == 2
\* Connections explored (ws_handler invocations).
NumSubs == 1
\* Connections explored where a claim compares subscribers with each other.
PairSubs == 2
\* SystemTime seconds are drawn from 0..MaxTimestamp.
MaxTimestamp == 1

\* ------------------------------------------------------- program constants
\* sleep(Duration::from_secs(5))
BackoffSecs == 5

SubIds == 1..(IF PairSubs > NumSubs THEN PairSubs ELSE NumSubs)
Timestamps == 0..MaxTimestamp
None == [none |-> TRUE]
NoResponse == [status |-> "none"]

\* Notification payloads the characteristic may deliver.
Notifs ==
    { <<>>, <<0>>, <<1, 70>>, <<6, 60>>, <<5, 244, 1>> }

\* Frames / outcomes of msg_stream.next() in the control task.
InboundMsgs ==
    { "Ping", "Pong", "TextPing", "TextOther", "Close", "Other", "Err", "End" }

VARIABLES
    mon,        \* position of start_bluetooth_monitor / handle_device
    monErr,     \* kind of the failure that ended the current iteration
    sleepLeft,  \* seconds left of the backoff sleep
    pending,    \* heart_rate_data local of handle_device (None when unset)
    store,      \* AppState.heart_rate_data : Option<HeartRateData>
    sent,       \* every value passed to tx.send, in order (the ring keeps the last Capacity)
    ws,         \* per connection: position of ws_handler
    conn,       \* per connection: "open", or "gone" once the transport is dropped
    next,       \* per connection: the broadcast Receiver's cursor
    subAt,      \* per connection: cursor value returned by tx.subscribe()
    ctl,        \* per connection: the message handling task
    fwd,        \* per connection: the message forwarding task
    item,       \* per connection: value bound by Ok(heart_rate_data) = rx.recv()
    woken,      \* per connection: the live Notified future has been notified
    recvd,      \* per connection: reading messages accepted by session.text, in order
    resp,       \* HTTP response of get_heart_rate on its way to the client (NoResponse: no request in hand)
    decIn       \* notification bytes fed to the measurement parse when it is examined alone

vars == << mon, monErr, sleepLeft, pending, store, sent,
           ws, conn, next, subAt, ctl, fwd, item, woken, recvd, resp, decIn >>

monVars == << mon, monErr, sleepLeft, pending, store, sent >>
subVars == << ws, conn, next, subAt, ctl, fwd, item, woken, recvd >>
apiVars == << resp, decIn >>

\* ----------------------------------------------------------------- decoder
RECURSIVE BitOr(_, _, _)
\* a | b on n-bit operands
BitOr(a, b, n) ==
    IF n = 0 THEN 0
    ELSE (IF a % 2 = 1 \/ b % 2 = 1 THEN 1 ELSE 0)
         + 2 * BitOr(a \div 2, b \div 2, n - 1)

\* flag & mask != 0 for a one-bit mask 2^k
BitSet(flag, k) == (flag \div (2 ^ k)) % 2 = 1

\* heart_rate.get(i) with Rust's 0-based index
HasByte(bytes, i) == i + 1 <= Len(bytes)
Byte(bytes, i) == bytes[i + 1]

\* Variant of DecodeError that asks for the third byte whatever the flags say.
DecodeError_AlwaysThreeBytes(bytes) ==
    IF ~HasByte(bytes, 0) THEN "No flag"
    ELSE IF ~HasByte(bytes, 1) THEN "No heart rate u8"
    ELSE IF ~HasByte(bytes, 2) THEN "No heart rate u16"
    ELSE "ok"

\* The ?-errors of the measurement parse, in source order.
DecodeError(bytes) ==
    IF ~HasByte(bytes, 0) THEN "No flag"
    ELSE IF ~HasByte(bytes, 1) THEN "No heart rate u8"
    ELSE IF BitSet(Byte(bytes, 0), 0) /\ ~HasByte(bytes, 2) THEN "No heart rate u16"
    ELSE "ok"

\* Variant of HeartRateValue that reads the 16-bit value big-endian.
HeartRateValue_BigEndian(bytes) ==
    IF BitSet(Byte(bytes, 0), 0)
    THEN BitOr((Byte(bytes, 1) * 256) % 65536, Byte(bytes, 2), 16)
    ELSE Byte(bytes, 1)

HeartRateValue(bytes) ==
    IF BitSet(Byte(bytes, 0), 0)
    THEN BitOr(Byte(bytes, 1), (Byte(bytes, 2) * 256) % 65536, 16)
    ELSE Byte(bytes, 1)

\* Variant of SensorContact that tests the two flag bits the other way round.
SensorContact_BitsSwapped(flag) ==
    IF BitSet(flag, 1) THEN [some |-> BitSet(flag, 2)] ELSE None

SensorContact(flag) ==
    IF BitSet(flag, 2) THEN [some |-> BitSet(flag, 1)] ELSE None

\* HeartRateData built from a well-formed notification; seq is the decode
\* ordinal, carried to tell readings apart.
Decode(bytes, ts, n) ==
    [ value |-> HeartRateValue(bytes),
      sensor_contact_detected |-> SensorContact(Byte(bytes, 0)),
      timestamp |-> ts,
      seq |-> n ]

\* serde_json::to_string(&hr_data)
ToJson(r) ==
    << "value", r.value,
       "sensor_contact_detected", r.sensor_contact_detected,
       "timestamp", r.timestamp >>

\* Readings decoded so far: the published ones and the one in hand.
NumDecoded == Len(sent) + (IF pending = None THEN 0 ELSE 1)

\* -------------------------------------------------------------------- init
Init ==
    /\ mon = "start"
    /\ monErr = "none"
    /\ sleepLeft = 0
    /\ pending = None
    /\ store = None
    /\ sent = << >>
    /\ ws = [s \in SubIds |-> IF s <= NumSubs THEN "idle" ELSE "absent"]
    /\ conn = [s \in SubIds |-> "open"]
    /\ next = [s \in SubIds |-> 0]
    /\ subAt = [s \in SubIds |-> 0]
    /\ ctl = [s \in SubIds |-> "none"]
    /\ fwd = [s \in SubIds |-> "none"]
    /\ item = [s \in SubIds |-> None]
    /\ woken = [s \in SubIds |-> FALSE]
    /\ recvd = [s \in SubIds |-> << >>]
    /\ resp = NoResponse
    /\ decIn = << >>

\* ------------------------------------------------------- acquisition loop
\* Variant of SessionFail that also resets the store when a session fails.
SessionFail_ClearsStore(kind) ==
    /\ mon' = "backoff"
    /\ monErr' = kind
    /\ sleepLeft' = BackoffSecs
    /\ pending' = None
    /\ store' = None
    /\ UNCHANGED sent

\* handle_device returns Err(kind): the caller prints it and sleeps.
SessionFail(kind) ==
    /\ mon' = "backoff"
    /\ monErr' = kind
    /\ sleepLeft' = BackoffSecs
    /\ pending' = None
    /\ UNCHANGED << store, sent >>

\* start_bluetooth_monitor returns Err(kind) through a ? inside or before the loop.
MonitorReturn(kind) ==
    /\ mon' = "returned"
    /\ monErr' = kind
    /\ UNCHANGED << sleepLeft, pending, store, sent >>

\* Variant of AdapterInit that notes the missing adapter and enters the loop
\* all the same.
AdapterInit_IgnoresFailure ==
    /\ mon = "start"
    /\ \E ok \in BOOLEAN :
         /\ mon' = "locate"
         /\ monErr' = IF ok THEN monErr ELSE "AdapterUnavailable"
         /\ UNCHANGED << sleepLeft, pending, store, sent >>
    /\ UNCHANGED subVars
    /\ UNCHANGED apiVars

\* Adapter::default() and wait_available()
AdapterInit ==
    /\ mon = "start"
    /\ \E ok \in BOOLEAN :
         IF ok
         THEN mon' = "locate" /\ UNCHANGED << monErr, sleepLeft, pending, store, sent >>
         ELSE MonitorReturn("AdapterUnavailable")
    /\ UNCHANGED subVars
    /\ UNCHANGED apiVars

\* The device block of the loop: connected_devices_with_services, then the scan.
LocateDevice ==
    /\ mon = "locate"
    /\ \E outcome \in { "connected", "found", "list_err", "scan_err", "scan_end", "scan_item_err" } :
         IF outcome \in { "connected", "found" }
         THEN mon' = "setup" /\ UNCHANGED << monErr, sleepLeft, pending, store, sent >>
         ELSE MonitorReturn("NoDeviceFound")
    /\ UNCHANGED subVars
    /\ UNCHANGED apiVars

\* handle_device up to the notification loop: connect unless connected,
\* discover the service and the characteristic, then notify().
SessionSetup ==
    /\ mon = "setup"
    /\ \E isConnected \in BOOLEAN,
          outcome \in { "ok", "connect_err", "services_err", "no_service",
                        "chars_err", "no_characteristic", "notify_err" } :
         CASE outcome = "ok" ->
                mon' = "streaming" /\ UNCHANGED << monErr, sleepLeft, pending, store, sent >>
           [] outcome = "connect_err" ->
                IF isConnected
                THEN mon' = "streaming" /\ UNCHANGED << monErr, sleepLeft, pending, store, sent >>
                ELSE SessionFail("ConnectionError")
           [] outcome \in { "services_err", "no_service" } ->
                SessionFail("ServiceNotFound")
           [] outcome \in { "chars_err", "no_characteristic" } ->
                SessionFail("CharacteristicNotFound")
           [] OTHER ->
                SessionFail("ConnectionError")
    /\ UNCHANGED subVars
    /\ UNCHANGED apiVars

\* updates.next() yields None or Some(Err(_)): the while-let ends, handle_device
\* returns Ok(()) and the caller's `if let Err` does not match.
NotificationEnd ==
    /\ mon = "streaming"
    /\ mon' = "locate"
    /\ UNCHANGED << monErr, sleepLeft, pending, store, sent >>
    /\ UNCHANGED subVars
    /\ UNCHANGED apiVars

\* The body of the while-let for one notification, up to the store write;
\* ts is what SystemTime::now() returns.
HandleNotification(bytes, ts) ==
    IF DecodeError(bytes) # "ok"
    THEN SessionFail("MalformedMeasurement")
    ELSE /\ NumDecoded < MaxReadings
         /\ pending' = Decode(bytes, ts, NumDecoded + 1)
         /\ mon' = "write"
         /\ UNCHANGED << monErr, sleepLeft, store, sent >>

\* updates.next() yields Some(Ok(bytes)).
Notification ==
    /\ mon = "streaming"
    /\ \E bytes \in Notifs, ts \in Timestamps : HandleNotification(bytes, ts)
    /\ UNCHANGED subVars
    /\ UNCHANGED apiVars

\* *state = Some(heart_rate_data.clone())
StoreWrite ==
    /\ mon = "write"
    /\ store' = pending
    /\ mon' = "send"
    /\ UNCHANGED << monErr, sleepLeft, pending, sent >>

\* Variant of Publish on a channel that makes the sender wait while a
\* receiver's buffer is full.
Publish_WaitsForRoom ==
    /\ mon = "send"
    /\ \A s \in SubIds :
         fwd[s] \in { "top", "waiting", "lagwait", "sending" } => Len(sent) - next[s] < Capacity
    /\ sent' = Append(sent, pending)
    /\ pending' = None
    /\ mon' = "streaming"
    /\ UNCHANGED << monErr, sleepLeft, store >>

\* let _ = app_state.tx.send(heart_rate_data)
Publish ==
    /\ mon = "send"
    /\ sent' = Append(sent, pending)
    /\ pending' = None
    /\ mon' = "streaming"
    /\ UNCHANGED << monErr, sleepLeft, store >>

\* Variant of Emit that sends on the channel first and writes the store after.
Emit_PublishFirst ==
    /\ \/ /\ mon = "write"
          /\ sent' = Append(sent, pending)
          /\ mon' = "send"
          /\ UNCHANGED << monErr, sleepLeft, pending, store >>
       \/ /\ mon = "send"
          /\ store' = pending
          /\ pending' = None
          /\ mon' = "streaming"
          /\ UNCHANGED << monErr, sleepLeft, sent >>
    /\ UNCHANGED subVars
    /\ UNCHANGED apiVars

\* "Update global state" then "Send to all WebSocket clients".
Emit ==
    /\ StoreWrite \/ Publish
    /\ UNCHANGED subVars
    /\ UNCHANGED apiVars

\* The timer of the backoff sleep runs its BackoffSecs seconds.
SleepTimer ==
    /\ mon = "backoff"
    /\ sleepLeft > 0
    /\ sleepLeft' = 0
    /\ UNCHANGED << mon, monErr, pending, store, sent >>
    /\ UNCHANGED subVars
    /\ UNCHANGED apiVars

\* sleep(...) completes; the loop starts over.
BackoffElapsed ==
    /\ mon = "backoff"
    /\ sleepLeft = 0
    /\ mon' = "locate"
    /\ monErr' = "none"
    /\ UNCHANGED << sleepLeft, pending, store, sent >>
    /\ UNCHANGED subVars
    /\ UNCHANGED apiVars

MonNext ==
    \/ AdapterInit
    \/ LocateDevice
    \/ SessionSetup
    \/ NotificationEnd
    \/ Notification
    \/ Emit
    \/ SleepTimer
    \/ BackoffElapsed

\* ------------------------------------------------------ broadcast receiver
\* Outcome of polling rx.recv() with cursor c: the ring holds the last
\* Capacity values of sent.
RecvPoll(c) ==
    IF c + Capacity < Len(sent) THEN "Lagged"
    ELSE IF c < Len(sent) THEN "Ok"
    ELSE "Pending"

\* session.text(..) succeeds while the transport is there.
SendOk(s) == conn[s] = "open"

Msg(kind, r) == [ kind |-> kind, seq |-> r.seq, body |-> ToJson(r) ]

\* ---------------------------------------------------------------- ws_handler
\* Variant of WsSubscribe whose receiver starts at the oldest retained value.
WsSubscribe_Replay(s) ==
    /\ ws[s] = "idle"
    /\ ws' = [ws EXCEPT ![s] = "subscribed"]
    /\ next' = [next EXCEPT ![s] = IF Len(sent) > Capacity THEN Len(sent) - Capacity ELSE 0]
    /\ subAt' = [subAt EXCEPT ![s] = Len(sent)]
    /\ UNCHANGED << conn, ctl, fwd, item, woken, recvd >>
    /\ UNCHANGED monVars
    /\ UNCHANGED apiVars

\* actix_ws::handle and data.tx.subscribe()
WsSubscribe(s) ==
    /\ ws[s] = "idle"
    /\ ws' = [ws EXCEPT ![s] = "subscribed"]
    /\ next' = [next EXCEPT ![s] = Len(sent)]
    /\ subAt' = [subAt EXCEPT ![s] = Len(sent)]
    /\ UNCHANGED << conn, ctl, fwd, item, woken, recvd >>
    /\ UNCHANGED monVars
    /\ UNCHANGED apiVars

\* Variant of WsSnapshot that subscribes only after the snapshot was read.
WsSnapshot_SubscribeLate(s) ==
    /\ ws[s] = "subscribed"
    /\ recvd' = [recvd EXCEPT ![s] =
                   IF store # None /\ SendOk(s)
                   THEN Append(@, Msg("snapshot", store))
                   ELSE @]
    /\ next' = [next EXCEPT ![s] = Len(sent)]
    /\ ws' = [ws EXCEPT ![s] = "attached"]
    /\ ctl' = [ctl EXCEPT ![s] = "run"]
    /\ fwd' = [fwd EXCEPT ![s] = "top"]
    /\ UNCHANGED << conn, subAt, item, woken >>
    /\ UNCHANGED monVars
    /\ UNCHANGED apiVars

\* Variant of WsSnapshot that leaves out the snapshot block.
WsSnapshot_NoSnapshot(s) ==
    /\ ws[s] = "subscribed"
    /\ ws' = [ws EXCEPT ![s] = "attached"]
    /\ ctl' = [ctl EXCEPT ![s] = "run"]
    /\ fwd' = [fwd EXCEPT ![s] = "top"]
    /\ UNCHANGED << conn, next, subAt, item, woken, recvd >>
    /\ UNCHANGED monVars
    /\ UNCHANGED apiVars

\* The snapshot block, then both tasks are spawned and the handler returns.
WsSnapshot(s) ==
    /\ ws[s] = "subscribed"
    /\ recvd' = [recvd EXCEPT ![s] =
                   IF store # None /\ SendOk(s)
                   THEN Append(@, Msg("snapshot", store))
                   ELSE @]
    /\ ws' = [ws EXCEPT ![s] = "attached"]
    /\ ctl' = [ctl EXCEPT ![s] = "run"]
    /\ fwd' = [fwd EXCEPT ![s] = "top"]
    /\ UNCHANGED << conn, next, subAt, item, woken >>
    /\ UNCHANGED monVars
    /\ UNCHANGED apiVars

\* The peer or the network drops the connection.
Disconnect(s) ==
    /\ ws[s] \in { "subscribed", "attached" }
    /\ conn[s] = "open"
    /\ conn' = [conn EXCEPT ![s] = "gone"]
    /\ UNCHANGED << ws, next, subAt, ctl, fwd, item, woken, recvd >>
    /\ UNCHANGED monVars
    /\ UNCHANGED apiVars

\* Does the control loop break on message m?
CtlBreaks(s, m) ==
    \/ m \in { "Close", "Other", "Err", "End" }
    \/ m \in { "Ping", "TextPing" } /\ ~SendOk(s)

\* session_closed_clone.notify_waiters(): wakes the Notified futures that
\* exist now, and stores no permit for later ones.
NotifyWaiters(s) ==
    woken' = [woken EXCEPT ![s] = @ \/ fwd[s] \in { "waiting", "lagwait" }]

\* One msg_stream.next() of the message handling task, with the match on it;
\* leaving the loop runs notify_waiters and ends the task.
CtlMsg(s) ==
    /\ ctl[s] = "run"
    /\ \E m \in InboundMsgs :
         IF CtlBreaks(s, m)
         THEN ctl' = [ctl EXCEPT ![s] = "done"] /\ NotifyWaiters(s)
         ELSE UNCHANGED << ctl, woken >>
    /\ UNCHANGED << ws, conn, next, subAt, fwd, item, recvd >>
    /\ UNCHANGED monVars
    /\ UNCHANGED apiVars

\* Variant of FwdOnPoll that handles Err(Lagged) by going round the loop
\* again, so the receiver resumes at the oldest retained value.
FwdOnPoll_ResumeAfterLag(s) ==
    CASE RecvPoll(next[s]) = "Ok" ->
           /\ item' = [item EXCEPT ![s] = sent[next[s] + 1]]
           /\ next' = [next EXCEPT ![s] = @ + 1]
           /\ fwd' = [fwd EXCEPT ![s] = "sending"]
      [] RecvPoll(next[s]) = "Lagged" ->
           /\ next' = [next EXCEPT ![s] = Len(sent) - Capacity]
           /\ fwd' = [fwd EXCEPT ![s] = "top"]
           /\ UNCHANGED item
      [] OTHER ->
           /\ fwd' = [fwd EXCEPT ![s] = "waiting"]
           /\ UNCHANGED << next, item >>

\* What the forwarding task does with a poll of rx.recv():
\* Ok binds the value and runs the branch body; Err(Lagged) moves the cursor
\* to the oldest retained value, fails the pattern and disables the branch.
FwdOnPoll(s) ==
    CASE RecvPoll(next[s]) = "Ok" ->
           /\ item' = [item EXCEPT ![s] = sent[next[s] + 1]]
           /\ next' = [next EXCEPT ![s] = @ + 1]
           /\ fwd' = [fwd EXCEPT ![s] = "sending"]
      [] RecvPoll(next[s]) = "Lagged" ->
           /\ next' = [next EXCEPT ![s] = Len(sent) - Capacity]
           /\ fwd' = [fwd EXCEPT ![s] = "lagwait"]
           /\ UNCHANGED item
      [] OTHER ->
           /\ fwd' = [fwd EXCEPT ![s] = "waiting"]
           /\ UNCHANGED << next, item >>

\* Top of the loop: select! creates rx.recv() and closed_notifier.notified()
\* and polls them.
FwdEnter(s) ==
    /\ fwd[s] = "top"
    /\ FwdOnPoll(s)
    /\ woken' = [woken EXCEPT ![s] = FALSE]
    /\ UNCHANGED << ws, conn, subAt, ctl, recvd >>
    /\ UNCHANGED monVars
    /\ UNCHANGED apiVars

\* A send wakes the pending rx.recv().
FwdRecv(s) ==
    /\ fwd[s] = "waiting"
    /\ RecvPoll(next[s]) # "Pending"
    /\ FwdOnPoll(s)
    /\ UNCHANGED << ws, conn, subAt, ctl, woken, recvd >>
    /\ UNCHANGED monVars
    /\ UNCHANGED apiVars

\* The notified() branch completes: break.
FwdNotified(s) ==
    /\ fwd[s] \in { "waiting", "lagwait" }
    /\ woken[s]
    /\ fwd' = [fwd EXCEPT ![s] = "done"]
    /\ UNCHANGED << ws, conn, next, subAt, ctl, item, woken, recvd >>
    /\ UNCHANGED monVars
    /\ UNCHANGED apiVars

\* Variant of FwdSend that also sends the forwarded value back on the channel.
FwdSend_Republish(s) ==
    /\ fwd[s] = "sending"
    /\ IF SendOk(s)
       THEN /\ recvd' = [recvd EXCEPT ![s] = Append(@, Msg("broadcast", item[s]))]
            /\ fwd' = [fwd EXCEPT ![s] = "top"]
            /\ sent' = Append(sent, item[s])
       ELSE /\ fwd' = [fwd EXCEPT ![s] = "done"]
            /\ UNCHANGED << recvd, sent >>
    /\ item' = [item EXCEPT ![s] = None]
    /\ UNCHANGED << ws, conn, next, subAt, ctl, woken >>
    /\ UNCHANGED << mon, monErr, sleepLeft, pending, store >>
    /\ UNCHANGED apiVars

\* Variant of FwdSend that serialises what the store holds at send time
\* in place of the value received from the channel.
FwdSend_SendsStore(s) ==
    /\ fwd[s] = "sending"
    /\ IF SendOk(s)
       THEN /\ recvd' = [recvd EXCEPT ![s] =
                          Append(@, [ kind |-> "broadcast", seq |-> item[s].seq,
                                      body |-> ToJson(store) ])]
            /\ fwd' = [fwd EXCEPT ![s] = "top"]
       ELSE /\ fwd' = [fwd EXCEPT ![s] = "done"]
            /\ UNCHANGED recvd
    /\ item' = [item EXCEPT ![s] = None]
    /\ UNCHANGED << ws, conn, next, subAt, ctl, woken >>
    /\ UNCHANGED monVars
    /\ UNCHANGED apiVars

\* session_for_broadcasts.text(json): break on error, else loop.
FwdSend(s) ==
    /\ fwd[s] = "sending"
    /\ IF SendOk(s)
       THEN /\ recvd' = [recvd EXCEPT ![s] = Append(@, Msg("broadcast", item[s]))]
            /\ fwd' = [fwd EXCEPT ![s] = "top"]
       ELSE /\ fwd' = [fwd EXCEPT ![s] = "done"]
            /\ UNCHANGED recvd
    /\ item' = [item EXCEPT ![s] = None]
    /\ UNCHANGED << ws, conn, next, subAt, ctl, woken >>
    /\ UNCHANGED monVars
    /\ UNCHANGED apiVars

SubNext ==
    \E s \in SubIds :
        \/ WsSubscribe(s)
        \/ WsSnapshot(s)
        \/ Disconnect(s)
        \/ CtlMsg(s)
        \/ FwdEnter(s)
        \/ FwdRecv(s)
        \/ FwdNotified(s)
        \/ FwdSend(s)

Next == MonNext \/ SubNext

Spec == Init /\ [][Next]_vars

\* The runtime schedules every spawned task that can make progress, and the
\* inbound stream of a dropped connection runs out (frames still buffered are
\* answered with a failing send, then comes the error or the end). The device
\* and the peer are under no obligation.
CtlStreamEnds(s) == CtlMsg(s) /\ conn[s] = "gone"

FairSpec ==
    /\ Spec
    /\ \A s \in SubIds :
         /\ WF_vars(FwdEnter(s))
         /\ WF_vars(FwdRecv(s))
         /\ WF_vars(FwdNotified(s))
         /\ WF_vars(FwdSend(s))
         /\ WF_vars(CtlStreamEnds(s))

\* ------------------------------------------------------------ get_heart_rate
\* The match on the cloned store content.
Response(st) ==
    IF st = None
    THEN [ status |-> "NotFound",
           body |-> << "error", "No heart rate data available" >> ]
    ELSE [ status |-> "Ok", body |-> ToJson(st) ]

\* Variant of GetHeartRate that takes the reading out of the store.
GetHeartRate_Take ==
    /\ resp = NoResponse
    /\ resp' = Response(store)
    /\ store' = None
    /\ UNCHANGED << mon, monErr, sleepLeft, pending, sent >>
    /\ UNCHANGED subVars
    /\ UNCHANGED decIn

\* GET /api/heart-rate: read lock, clone, build the response.
GetHeartRate ==
    /\ resp = NoResponse
    /\ resp' = Response(store)
    /\ UNCHANGED monVars
    /\ UNCHANGED subVars
    /\ UNCHANGED decIn

\* The response leaves for the client.
QueryReturn ==
    /\ resp # NoResponse
    /\ resp' = NoResponse
    /\ UNCHANGED monVars
    /\ UNCHANGED subVars
    /\ UNCHANGED decIn

QueryNext == GetHeartRate \/ QueryReturn

\* The whole server: acquisition loop, WebSocket connections and queries.
ServerNext == MonNext \/ SubNext \/ QueryNext

ServerSpec == Init /\ [][ServerNext]_vars

\* ------------------------------------------------- connections side by side
\* PairSubs clients connect during one device session that has reached the
\* notification loop; while they are compared they stay attached: the
\* transport stays up and no frame makes a control task leave its loop.
PairInit ==
    /\ mon = "streaming"
    /\ monErr = "none"
    /\ sleepLeft = 0
    /\ pending = None
    /\ store = None
    /\ sent = << >>
    /\ ws = [s \in SubIds |-> IF s <= PairSubs THEN "idle" ELSE "absent"]
    /\ conn = [s \in SubIds |-> "open"]
    /\ next = [s \in SubIds |-> 0]
    /\ subAt = [s \in SubIds |-> 0]
    /\ ctl = [s \in SubIds |-> "none"]
    /\ fwd = [s \in SubIds |-> "none"]
    /\ item = [s \in SubIds |-> None]
    /\ woken = [s \in SubIds |-> FALSE]
    /\ recvd = [s \in SubIds |-> << >>]
    /\ resp = NoResponse
    /\ decIn = << >>

PairSubNext ==
    \E s \in SubIds :
        \/ WsSubscribe(s)
        \/ WsSnapshot(s)
        \/ FwdEnter(s)
        \/ FwdRecv(s)
        \/ FwdSend(s)

PairNext == Notification \/ Emit \/ PairSubNext

PairSpec == PairInit /\ [][PairNext]_vars

\* ------------------------------------------------------------ observations
Snapshots(s) == SelectSeq(recvd[s], LAMBDA m : m.kind = "snapshot")
Forwarded(s) == SelectSeq(recvd[s], LAMBDA m : m.kind = "broadcast")

\* The forwarding task is parked in select! with nothing left to receive.
CaughtUp(s) == fwd[s] = "waiting" /\ RecvPoll(next[s]) = "Pending"

\* The forwarded messages are exactly the readings published after position
\* from, in order: sent[from+1], sent[from+2], ...
ConsecutiveFrom(s, from) ==
    /\ from + Len(Forwarded(s)) <= Len(sent)
    /\ \A i \in 1..Len(Forwarded(s)) :
         Forwarded(s)[i] = Msg("broadcast", sent[from + i])

Attached(s) == ws[s] = "attached"

\* ------------------------------------------------------------------ claims

LateAttach(s) ==
    /\ Attached(s)
    /\ subAt[s] >= 1
    /\ Len(recvd[s]) >= 1
    /\ recvd[s][1].kind = "snapshot"
    /\ recvd[s][1].seq = subAt[s]

\* C2: after such an attach the subscriber gets reading M once, as the
\* snapshot, then M+1, M+2, ... as forwarded items: M is never forwarded as a
\* broadcast item, M+1 is never skipped, and a caught-up subscriber has them all.
C2_LateAttach ==
    \A s \in SubIds :
        LateAttach(s) =>
            /\ recvd[s][1] = Msg("snapshot", sent[subAt[s]])
            /\ \A i \in 2..Len(recvd[s]) :
                 /\ subAt[s] + i - 1 <= Len(sent)
                 /\ recvd[s][i] = Msg("broadcast", sent[subAt[s] + i - 1])
            /\ CaughtUp(s) => Len(recvd[s]) = 1 + Len(sent) - subAt[s]

\* C2 witness: a late attacher received M as snapshot and M+1 as broadcast.
C2_Witness ==
    \E s \in SubIds :
        /\ LateAttach(s)
        /\ Len(recvd[s]) >= 2
        /\ recvd[s][2].seq = subAt[s] + 1

\* C3 as stated: no reading reaches a subscriber twice, whether as snapshot
\* or as forwarded broadcast.
C3_NeverTwice ==
    \A s \in SubIds :
        \A i, j \in 1..Len(recvd[s]) :
            i # j => recvd[s][i].seq # recvd[s][j].seq

\* C3 amended: a subscriber gets at most one snapshot, first, never older than
\* the last reading published before it subscribed; every reading published
\* after the subscribe is forwarded at most once, in order, none skipped, and
\* a caught-up subscriber has been forwarded all of them. (So a reading that
\* races the attach is never missed, and can arrive twice only as the
\* snapshot plus one forwarded broadcast.)
C3_NoMissAtMostOnceEachWay ==
    \A s \in SubIds :
        Attached(s) =>
            /\ Len(Snapshots(s)) <= 1
            /\ Len(Snapshots(s)) = 1 =>
                 /\ recvd[s][1].kind = "snapshot"
                 /\ recvd[s][1].seq >= subAt[s]
            /\ ConsecutiveFrom(s, subAt[s])
            /\ CaughtUp(s) => Len(Forwarded(s)) = Len(sent) - subAt[s]

\* C3 witness: the reading that raced the attach arrived as the snapshot and
\* again as a forwarded broadcast.
C3_Witness ==
    \E s \in SubIds :
        /\ Len(recvd[s]) >= 2
        /\ recvd[s][1].kind = "snapshot"
        /\ recvd[s][2].kind = "broadcast"
        /\ recvd[s][1].seq = recvd[s][2].seq

\* C4: every step that begins a loop iteration is either the first one after
\* the adapter came up or the completion of the backoff sleep.
C4_BackoffBeforeNextIteration ==
    [][ (mon # "locate" /\ mon' = "locate")
          => (mon = "start" \/ (mon = "backoff" /\ sleepLeft = 0)) ]_vars

\* C5: a MalformedMeasurement never ends a device session.
C5_MalformedDoesNotEndSession ==
    ~(mon = "backoff" /\ monErr = "MalformedMeasurement")

\* C6: once the adapter is available start_bluetooth_monitor never returns.
C6_LoopNeverReturns ==
    mon = "returned" => monErr = "AdapterUnavailable"

\* C7: whatever has been sent on the broadcast channel, the store holds it
\* or a reading decoded after it.
C7_StoreBeforePublish ==
    \A i \in 1..Len(sent) :
        store # None /\ store.seq >= sent[i].seq

\* C7 witness: a reading is published while the store already holds it.
C7_Witness ==
    /\ Len(sent) >= 2
    /\ store = sent[Len(sent)]
    /\ mon = "streaming"

LastPublished == IF Len(sent) > 0 THEN sent[Len(sent)] ELSE None

\* C8: the store is empty exactly while nothing has been decoded, and
\* otherwise holds, whole, the latest decoded reading (the one before it only
\* while the latest is on its way into the store); a failed or malformed
\* notification leaves it as it was.
C8_StoreHoldsLatestDecoded ==
    /\ mon = "write" => store = LastPublished
    /\ mon = "send" => store = pending
    /\ mon \notin { "write", "send" } => (pending = None /\ store = LastPublished)

\* C8 witness: a session ended on a malformed notification and the store
\* still holds the latest reading.
C8_Witness ==
    /\ mon = "backoff"
    /\ monErr = "MalformedMeasurement"
    /\ store # None
    /\ store = LastPublished

\* C9: no subscriber stays attached on an open connection with a forwarding
\* task that will forward nothing more.
C9_NoStarvedSubscriber ==
    \A s \in SubIds :
        ~(fwd[s] = "lagwait" /\ conn[s] = "open" /\ ctl[s] = "run")

\* C10: once either task of a connection has stopped, both eventually stop.
C10_BothTasksStop ==
    \A s \in SubIds :
        (ctl[s] = "done" \/ fwd[s] = "done") ~> (ctl[s] = "done" /\ fwd[s] = "done")

\* C11: the messages sent to a subscriber, snapshot and forwarded items
\* alike, never go back in decode order.
C11_DecodeOrder ==
    \A s \in SubIds :
        \A i, j \in 1..Len(recvd[s]) :
            i < j => recvd[s][i].seq <= recvd[s][j].seq

\* C12: the step that ends the attach sends nothing when the store is empty
\* and sends exactly the stored reading, as the first message, when it is not
\* (on a connection that is still there); every later message to that
\* subscriber is one forwarded broadcast item appended after it.
C12_SnapshotOnceThenLive ==
    [][ \A s \in SubIds :
          /\ (ws[s] = "subscribed" /\ ws'[s] = "attached") =>
                /\ recvd[s] = << >>
                /\ store = None => recvd'[s] = << >>
                /\ (store # None /\ conn[s] = "open") =>
                      recvd'[s] = << Msg("snapshot", store) >>
          /\ (ws[s] = "attached" /\ recvd'[s] # recvd[s]) =>
                /\ Len(recvd'[s]) = Len(recvd[s]) + 1
                /\ SubSeq(recvd'[s], 1, Len(recvd[s])) = recvd[s]
                /\ recvd'[s][Len(recvd'[s])].kind = "broadcast"
          /\ ws[s] \in { "absent", "idle" } => recvd'[s] = << >>
      ]_vars

\* C12 witness: a subscriber that attached on an empty store has got the
\* first broadcast as its first message.
C12_Witness ==
    \E s \in SubIds :
        /\ Attached(s)
        /\ Len(recvd[s]) >= 1
        /\ Len(sent) >= 1
        /\ recvd[s][1] = Msg("broadcast", sent[1])

\* ------------------------------------------------- the measurement parse
\* Flags bytes and a few data bytes: every flags value, and data bytes at
\* both ends of the u8 range.
Flags == 0..255
DataBytes == { 0, 1, 70, 244, 255 }

\* Notifications of zero to four bytes.
DecInputs ==
    { << >> }
    \cup { << f >> : f \in Flags }
    \cup { << f, a >> : f \in Flags, a \in DataBytes }
    \cup { << f, a, b >> : f \in Flags, a \in DataBytes, b \in DataBytes }
    \cup { << f, a, b, 7 >> : f \in Flags, a \in DataBytes, b \in DataBytes }

\* A session that is streaming, nothing decoded yet, about to receive decIn.
DecInit ==
    /\ mon = "streaming"
    /\ monErr = "none"
    /\ sleepLeft = 0
    /\ pending = None
    /\ store = None
    /\ sent = << >>
    /\ ws = [s \in SubIds |-> "absent"]
    /\ conn = [s \in SubIds |-> "open"]
    /\ next = [s \in SubIds |-> 0]
    /\ subAt = [s \in SubIds |-> 0]
    /\ ctl = [s \in SubIds |-> "none"]
    /\ fwd = [s \in SubIds |-> "none"]
    /\ item = [s \in SubIds |-> None]
    /\ woken = [s \in SubIds |-> FALSE]
    /\ recvd = [s \in SubIds |-> << >>]
    /\ resp = NoResponse
    /\ decIn \in DecInputs

\* updates.next() yields Some(Ok(decIn)).
DecStep ==
    /\ mon = "streaming"
    /\ NumDecoded = 0
    /\ \E ts \in Timestamps : HandleNotification(decIn, ts)
    /\ UNCHANGED subVars
    /\ UNCHANGED apiVars

DecNext == DecStep \/ Emit

DecSpec == DecInit /\ [][DecNext]_vars

\* The notification has been handled.
DecDone == mon # "streaming" \/ Len(sent) > 0

\* The reading the notification was decoded to, None if there is none.
DecResult ==
    IF mon \in { "write", "send" } THEN pending
    ELSE IF Len(sent) > 0 THEN sent[1]
    ELSE None

\* C13: a 2-byte notification with flags bit 0 clear decodes to byte 1, a
\* 3-byte one with bit 0 set to byte 1 plus 256 times byte 2, a u16.
C13_DecoderValue ==
    DecDone =>
        /\ (Len(decIn) = 2 /\ decIn[1] % 2 = 0) =>
              (DecResult # None /\ DecResult.value = decIn[2])
        /\ (Len(decIn) = 3 /\ decIn[1] % 2 = 1) =>
              /\ DecResult # None
              /\ DecResult.value = decIn[2] + 256 * decIn[3]
              /\ DecResult.value \in 0..65535

\* C13 witness: [0x05, 0xF4, 0x01] decoded to 500.
C13_Witness ==
    /\ decIn = << 5, 244, 1 >>
    /\ DecResult # None
    /\ DecResult.value = 500

\* C14: sensor_contact_detected is None when flags bit 2 is clear, whatever
\* bit 1 is, and Some(bit 1) when bit 2 is set.
C14_DecoderContact ==
    DecResult # None =>
        LET low == decIn[1] % 8
        IN  /\ low \in { 0, 1, 2, 3 } => DecResult.sensor_contact_detected = None
            /\ low \in { 4, 5 } => DecResult.sensor_contact_detected = [some |-> FALSE]
            /\ low \in { 6, 7 } => DecResult.sensor_contact_detected = [some |-> TRUE]

\* C14 witness: bit 1 set with bit 2 clear decoded to None.
C14_Witness ==
    /\ DecResult # None
    /\ decIn[1] % 8 = 2
    /\ DecResult.sensor_contact_detected = None

\* Too short for its flags: empty, one byte, or two bytes with bit 0 set.
TooShort(bytes) ==
    \/ Len(bytes) <= 1
    \/ Len(bytes) = 2 /\ bytes[1] % 2 = 1

\* C15: the notification fails as a malformed measurement exactly when it is
\* too short for its flags, and then nothing is stored or published; every
\* other notification yields a reading.
C15_MalformedExactlyWhenShort ==
    DecDone =>
        /\ TooShort(decIn) <=> (mon = "backoff" /\ monErr = "MalformedMeasurement")
        /\ TooShort(decIn) => (store = None /\ sent = << >> /\ pending = None)
        /\ ~TooShort(decIn) => DecResult # None

\* C15 witness: a 2-byte notification with bit 0 set was refused.
C15_Witness ==
    /\ Len(decIn) = 2
    /\ decIn[1] % 2 = 1
    /\ mon = "backoff"
    /\ monErr = "MalformedMeasurement"

\* C16: a query answers NotFound exactly when the store is empty and
\* otherwise answers with the reading the store holds, and it changes neither
\* the store nor anything of the broadcast channel or its receivers.
C16_QueryIsPureRead ==
    [][ (resp = NoResponse /\ resp' # NoResponse) =>
          /\ resp'.status = "NotFound" <=> store = None
          /\ store = None =>
                resp'.body = << "error", "No heart rate data available" >>
          /\ store # None =>
                /\ resp'.status = "Ok"
                /\ resp'.body = << "value", store.value,
                                  "sensor_contact_detected", store.sensor_contact_detected,
                                  "timestamp", store.timestamp >>
          /\ store' = store
          /\ sent' = sent
          /\ next' = next
          /\ recvd' = recvd
      ]_vars

\* C16 witness: a query was answered with the reading in the store.
C16_Witness ==
    /\ resp # NoResponse
    /\ resp.status = "Ok"
    /\ store # None
    /\ resp.body = ToJson(store)
    /\ Len(sent) >= 1

\* C17: a reading forwarded to two subscribers reaches both with the same
\* field values, the readings both are forwarded come in the same order for
\* both, and two subscribers that subscribed at the same point and have both
\* caught up have been forwarded the same sequence.
C17_SameReadingsSameOrder ==
    \A s, t \in SubIds :
        /\ \A i \in 1..Len(Forwarded(s)), j \in 1..Len(Forwarded(t)) :
              Forwarded(s)[i].seq = Forwarded(t)[j].seq =>
                  /\ Forwarded(s)[i].body = Forwarded(t)[j].body
                  /\ \A i2 \in 1..Len(Forwarded(s)), j2 \in 1..Len(Forwarded(t)) :
                        (i < i2 /\ Forwarded(s)[i2].seq = Forwarded(t)[j2].seq) => j < j2
        /\ (Attached(s) /\ Attached(t) /\ subAt[s] = subAt[t]
              /\ CaughtUp(s) /\ CaughtUp(t)) => Forwarded(s) = Forwarded(t)

\* C17 witness: two subscribers have both been forwarded the same two
\* readings.
C17_Witness ==
    \E s, t \in SubIds :
        /\ s # t
        /\ Len(Forwarded(s)) >= 2
        /\ Len(Forwarded(t)) >= 2
        /\ Forwarded(s)[1] = Forwarded(t)[1]
        /\ Forwarded(s)[2] = Forwarded(t)[2]

\* C18: whenever the loop is at the send, the send can be taken, whatever
\* the receivers' state, and the store already holds the reading; what was
\* published before a receiver subscribed is never forwarded to it.
C18_PublishNeverBlocks ==
    /\ mon = "send" => (ENABLED Emit /\ store = pending)
    /\ \A s \in SubIds :
         \A i \in 1..Len(Forwarded(s)) : Forwarded(s)[i].seq > subAt[s]

\* C18 witness: the loop is at the send while a live receiver's buffer is
\* full.
C18_Witness ==
    /\ mon = "send"
    /\ \E s \in SubIds :
         /\ fwd[s] \in { "top", "waiting", "sending" }
         /\ Len(sent) - next[s] >= Capacity

\* C19: the store changes only in the loop's store-write step and the
\* channel is sent on only in the loop's send step, neither of which is a step
\* of a connection or of a query; a device session is set up only from the
\* top of the loop, and the top of the loop is reached only from start-up,
\* from the backoff, or from the end of the one session that was running.
C19_SoleWriterSequentialLoop ==
    [][ /\ store' # store =>
              /\ mon = "write" /\ mon' = "send" /\ store' = pending
              /\ subVars' = subVars /\ resp' = resp
        /\ sent' # sent =>
              /\ mon = "send" /\ mon' = "streaming" /\ sent' = Append(sent, pending)
              /\ ws' = ws /\ recvd' = recvd /\ fwd' = fwd /\ resp' = resp
        /\ (mon' = "setup" /\ mon # "setup") => mon = "locate"
        /\ (mon' = "locate" /\ mon # "locate") => mon \in { "start", "backoff", "streaming" }
        /\ (mon' = "streaming" /\ mon # "streaming") => mon \in { "setup", "send" }
      ]_vars

\* C19 witness: a reading was stored and published by the loop while a
\* connection forwarded it and a query answered with it.
C19_Witness ==
    /\ Len(sent) >= 1
    /\ store = sent[Len(sent)]
    /\ resp = Response(store)
    /\ \E s \in SubIds : Len(Forwarded(s)) >= 1

\* C20: when the adapter is not available the acquisition task has returned,
\* nothing was or is stored or published, queries are still taken and answer
\* NotFound, and clients can still subscribe and attach (and are sent
\* nothing).
C20_AdapterUnavailable ==
    monErr = "AdapterUnavailable" =>
        /\ mon = "returned"
        /\ store = None /\ sent = << >> /\ pending = None
        /\ resp \in { NoResponse, Response(None) }
        /\ resp = NoResponse => ENABLED GetHeartRate
        /\ \A s \in SubIds :
             /\ ws[s] = "idle" => ENABLED WsSubscribe(s)
             /\ ws[s] = "subscribed" => ENABLED WsSnapshot(s)
             /\ recvd[s] = << >>

\* C20 witness: without an adapter a query was answered NotFound and a
\* client is attached.
C20_Witness ==
    /\ mon = "returned"
    /\ monErr = "AdapterUnavailable"
    /\ resp.status = "NotFound"
    /\ \E s \in SubIds : Attached(s)
====
